---- MODULE Spec2Model ----
(***************************************************************************)
(* A model of chemprot_to_standoff.py: the three converters, the merge and *)
(* write steps of main, and make_dir.                                      *)
(*                                                                         *)
(* A Python str is a sequence of one-character strings, so that strip,     *)
(* split, join and the f-strings are computed character by character.  A   *)
(* Python dict is a sequence of <<key, value>> pairs in insertion order.   *)
(***************************************************************************)
EXTENDS Integers, Sequences, FiniteSets, TLC

VARIABLES
    \* --- one call of a converter, line by line ---
    p_kind,      \* which converter runs: "abstracts", "entities", "relations"
    p_rows,      \* the rows the file was written from
    p_nl,        \* whether its last row ends with a newline
    p_in,        \* the content of the file f handed to it
    p_lines,     \* the lines (or abstracts) the loop has not yet consumed
    p_conv,      \* the local dict being built
    R,           \* convert_relations_to_standoff's counter
    p_pc,        \* "loop", "returned", "raised"
    \* --- one run of main ---
    pc,                    \* position in main
    outdir,                \* what kwargs['output'] is on disk
    indir,                 \* the *.tsv files of kwargs['input']
    todo,                  \* files glob has yet to yield
    converted_abstracts,   \* main's locals: [bound, dict]
    converted_entities,
    converted_relations,
    merge_todo,            \* keys the loop of line 50 has yet to visit
    wq,                    \* items write_to_disk has yet to write
    wext,                  \* its ext argument
    wret,                  \* where main resumes when write_to_disk returns
    disk,                  \* files written under the output directory
    err                    \* the exception that ended the run, or "none"

pvars == <<p_kind, p_rows, p_nl, p_in, p_lines, p_conv, R, p_pc>>
mvars == <<pc, outdir, indir, todo, converted_abstracts, converted_entities,
           converted_relations, merge_todo, wq, wext, wret, disk, err>>
vars == <<p_kind, p_rows, p_nl, p_in, p_lines, p_conv, R, p_pc,
          pc, outdir, indir, todo, converted_abstracts, converted_entities,
          converted_relations, merge_todo, wq, wext, wret, disk, err>>

----------------------------------------------------------------------------
(* Bounds of the model. *)

\* rows in a relation file handed to convert_relations_to_standoff
MaxRows == 4
\* rows in an entity file handed to convert_entities_to_standoff
MaxEntityRows == 3
\* rows in an abstracts file handed to convert_abstracts_to_standoff
MaxAbstractRows == 3
\* files in the input directory of a run of main
MaxFiles == 3

----------------------------------------------------------------------------
(* Characters and Python's str methods. *)

SP  == " "
TAB == "\t"
NL  == "\n"

\* the characters str.strip() removes, among those of the model
IsSpace(c) == c \in {SP, TAB, NL}

RECURSIVE LStrip(_)
LStrip(s) == IF s # <<>> /\ IsSpace(Head(s)) THEN LStrip(Tail(s)) ELSE s

RECURSIVE RStrip(_)
RStrip(s) ==
    IF s # <<>> /\ IsSpace(s[Len(s)]) THEN RStrip(SubSeq(s, 1, Len(s) - 1)) ELSE s

\* str.strip()
Strip(s) == RStrip(LStrip(s))

\* the index of the first sep in s, 0 when there is none
FirstIndex(s, sep) ==
    IF \A i \in 1..Len(s) : s[i] # sep THEN 0
    ELSE CHOOSE i \in 1..Len(s) : s[i] = sep /\ \A j \in 1..(i - 1) : s[j] # sep

\* str.split(sep): always at least one part
RECURSIVE Split(_, _)
Split(s, sep) ==
    LET i == FirstIndex(s, sep)
    IN  IF i = 0 THEN <<s>>
        ELSE <<SubSeq(s, 1, i - 1)>> \o Split(SubSeq(s, i + 1, Len(s)), sep)

\* sep.join(parts)
RECURSIVE Join(_, _)
Join(parts, sep) ==
    IF parts = <<>> THEN <<>>
    ELSE IF Len(parts) = 1 THEN parts[1]
    ELSE parts[1] \o sep \o Join(Tail(parts), sep)

\* `for line in f`: the lines of a text file, each with its terminator
RECURSIVE FileLines(_)
FileLines(c) ==
    LET i == FirstIndex(c, NL)
    IN  IF c = <<>> THEN <<>>
        ELSE IF i = 0 THEN <<c>>
        ELSE <<SubSeq(c, 1, i)>> \o FileLines(SubSeq(c, i + 1, Len(c)))

DigitChar(d) == <<"0", "1", "2", "3", "4", "5", "6", "7", "8", "9">>[d + 1]

\* str(n) of a non-negative int, as the f-string of line 126 formats R
RECURSIVE IntToStr(_)
IntToStr(n) ==
    IF n < 10 THEN <<DigitChar(n)>>
    ELSE IntToStr(n \div 10) \o <<DigitChar(n % 10)>>

----------------------------------------------------------------------------
(* dict *)

DictKeys(d) == {d[i][1] : i \in 1..Len(d)}
DictHas(d, k) == \E i \in 1..Len(d) : d[i][1] = k
DictGet(d, k) == d[CHOOSE i \in 1..Len(d) : d[i][1] = k][2]
\* d[k] = v: a new key goes last, a known key keeps its place
DictSet(d, k, v) ==
    IF DictHas(d, k)
    THEN [i \in 1..Len(d) |-> IF d[i][1] = k THEN <<k, v>> ELSE d[i]]
    ELSE Append(d, <<k, v>>)
\* {pmid: '\n'.join(anns) for (pmid, anns) in d.items()}
JoinValues(d) == [i \in 1..Len(d) |-> <<d[i][1], Join(d[i][2], <<NL>>)>>]

----------------------------------------------------------------------------
(* convert_abstracts_to_standoff *)

\* line 69: f.read().strip().split('\n')
file_contents(c) == Split(Strip(c), NL)

\* AbstractValue with the slice [1:] forgotten: the document_id stays in the text
AbstractValueKeepsId(abst) == Join(Split(abst, TAB), <<NL>>)

\* line 71, one abstract: key and value of the comprehension
AbstractKey(abst) == Split(abst, TAB)[1]
AbstractValue(abst) == Join(Tail(Split(abst, TAB)), <<NL>>)
AbstractStep(d, abst) == DictSet(d, AbstractKey(abst), AbstractValue(abst))

RECURSIVE AbstractFold(_, _)
AbstractFold(d, absts) ==
    IF absts = <<>> THEN d
    ELSE AbstractFold(AbstractStep(d, Head(absts)), Tail(absts))

convert_abstracts_to_standoff(c) == AbstractFold(<<>>, file_contents(c))

----------------------------------------------------------------------------
(* convert_entities_to_standoff *)

\* EntityAnn with the two offsets in each other's place
EntityAnnSwapped(x) ==
    x[2] \o <<TAB>> \o x[3] \o <<SP>> \o x[5] \o <<SP>> \o x[4] \o <<TAB>> \o x[6]

\* line 95: f'{T}\t{label} {start_offset} {end_offset}\t{text}'
EntityAnn(x) ==
    x[2] \o <<TAB>> \o x[3] \o <<SP>> \o x[4] \o <<SP>> \o x[5] \o <<TAB>> \o x[6]

\* lines 92-95: the list of pmid gets one more annotation
AppendAnn(d, pmid, ann) ==
    DictSet(d, pmid, (IF DictHas(d, pmid) THEN DictGet(d, pmid) ELSE <<>>) \o <<ann>>)

\* line 89 and 119: `if line:`
Truthy(line) == line # <<>>

\* line 90 and 120: the fields the tuple assignment unpacks
Fields(line) == Split(Strip(line), TAB)

\* EntRaises of an unpacking that lets extra fields pass
EntRaisesTooFew(line) == Truthy(line) /\ Len(Fields(line)) < 6

\* lines 89-95, one iteration: the unpacking raises ValueError unless 6 fields
EntRaises(line) == Truthy(line) /\ Len(Fields(line)) # 6
EntStep(d, line) ==
    IF Truthy(line)
    THEN LET x == Fields(line) IN AppendAnn(d, x[1], EntityAnn(x))
    ELSE d

RECURSIVE EntFold(_, _)
EntFold(st, lines) ==
    IF lines = <<>> \/ st.raised THEN st
    ELSE IF EntRaises(Head(lines)) THEN [raised |-> TRUE, dict |-> <<>>]
    ELSE EntFold([raised |-> FALSE, dict |-> EntStep(st.dict, Head(lines))],
                 Tail(lines))

\* the whole call: [raised, dict]
convert_entities_to_standoff(c) ==
    LET st == EntFold([raised |-> FALSE, dict |-> <<>>], FileLines(c))
    IN  IF st.raised THEN st ELSE [raised |-> FALSE, dict |-> JoinValues(st.dict)]

----------------------------------------------------------------------------
(* convert_relations_to_standoff *)

\* line 126: f'R{R}\t{label} {arg_1} {arg_2}'
RelationAnn(r, x) ==
    <<"R">> \o IntToStr(r) \o <<TAB>> \o x[2] \o <<SP>> \o x[3] \o <<SP>> \o x[4]

RelRaises(line) == Truthy(line) /\ Len(Fields(line)) # 4

\* lines 122-124: a pmid not seen before resets the counter
RelCounter(d, r, pmid) == IF DictHas(d, pmid) THEN r ELSE 1

\* lines 119-128, one iteration, on [dict, R]
RelStep(st, line) ==
    IF Truthy(line)
    THEN LET x == Fields(line)
             r == RelCounter(st.dict, st.R, x[1])
         IN  [dict |-> AppendAnn(st.dict, x[1], RelationAnn(r, x)), R |-> r + 1]
    ELSE st

RECURSIVE RelFold(_, _)
RelFold(st, lines) ==
    IF lines = <<>> \/ st.raised THEN st
    ELSE IF RelRaises(Head(lines)) THEN [raised |-> TRUE, dict |-> <<>>, R |-> st.R]
    ELSE LET n == RelStep([dict |-> st.dict, R |-> st.R], Head(lines))
         IN  RelFold([raised |-> FALSE, dict |-> n.dict, R |-> n.R], Tail(lines))

convert_relations_to_standoff(c) ==
    LET st == RelFold([raised |-> FALSE, dict |-> <<>>, R |-> 1], FileLines(c))
    IN  IF st.raised THEN [raised |-> TRUE, dict |-> <<>>]
        ELSE [raised |-> FALSE, dict |-> JoinValues(st.dict)]

----------------------------------------------------------------------------
(* The files handed to a converter: rows of fields, written out as text. *)

\* a row's text: its fields with a tab between each two
RECURSIVE RowText(_)
RowText(fields) ==
    IF Len(fields) = 1 THEN fields[1]
    ELSE fields[1] \o <<TAB>> \o RowText(Tail(fields))

\* a file's text: every row ends with a newline, the last one only when nl
RECURSIVE Content(_, _)
Content(rows, nl) ==
    IF rows = <<>> THEN <<>>
    ELSE IF Len(rows) = 1 THEN RowText(rows[1]) \o (IF nl THEN <<NL>> ELSE <<>>)
    ELSE RowText(rows[1]) \o <<NL>> \o Content(Tail(rows), nl)

\* a blank line: one empty field
BlankRow == << <<>> >>

EntityRows ==
    { << <<"1">>, <<"T", "1">>, <<"C">>, <<"0">>, <<"1">>, <<"a">> >>,
      << <<"2">>, <<"T", "2">>, <<"G">>, <<"2">>, <<"3">>, <<"b">> >>,
      << <<"1">>, <<"T", "2">>, <<"G">>, <<"2">>, <<"4">>, <<"b", SP>> >>,
      << <<SP, "1">>, <<"T", "3">>, <<"C">>, <<"5">>, <<"6">>, <<"a">> >>,
      << <<"1">>, <<"T", "4">>, <<"C">>, <<"7">>, <<"7">>, <<>> >>,
      BlankRow,
      << <<"1">>, <<"T", "1">>, <<"C">>, <<"0">>, <<"1">> >>,
      << <<"2">>, <<"T", "1">>, <<"C">>, <<"0">>, <<"1">>, <<"a">>, <<>> >>,
      << <<"2">>, <<"T", "1">>, <<"C">>, <<"0">>, <<"1">>, <<"a">>, <<"b">> >> }

RelationRows ==
    { << <<"1">>, <<"C", "3">>, <<"A", "1">>, <<"B", "2">> >>,
      << <<"2">>, <<"C", "4">>, <<"A", "3">>, <<"B", "4">> >>,
      << <<"1">>, <<"C", "9">>, <<"A", "5">>, <<"B", SP>> >>,
      BlankRow,
      << <<"1">>, <<"C", "3">>, <<"A", "1">> >>,
      << <<>>, <<"2">>, <<"C", "3">>, <<"A", "1">>, <<"B", "2">> >> }

AbstractRows ==
    { << <<"1">>, <<"T">>, <<"B", SP, "b">> >>,
      << <<"2">>, <<"U">> >>,
      << <<"1">>, <<"V">>, <<"C">> >>,
      << <<"3">> >>,
      BlankRow,
      << <<"2">>, <<"U">>, <<>> >>,
      << <<SP, "3">>, <<"W">> >> }

\* the sequences of at most n rows of S
RowSeqs(S, n) == UNION {[1..k -> S] : k \in 0..n}

----------------------------------------------------------------------------
(* One call of a converter. *)

ConverterIdle ==
    /\ p_kind = "none" /\ p_rows = <<>> /\ p_nl = FALSE /\ p_in = <<>>
    /\ p_lines = <<>> /\ p_conv = <<>> /\ R = 1 /\ p_pc = "idle"

\* the call: f is open on a file of the converter's kind; lines 69, 86, 115-116
InitConverter ==
    /\ \E k \in {"abstracts", "entities", "relations"} :
         /\ p_kind = k
         /\ p_rows \in (CASE k = "abstracts" -> RowSeqs(AbstractRows, MaxAbstractRows)
                          [] k = "entities" -> RowSeqs(EntityRows, MaxEntityRows)
                          [] OTHER -> RowSeqs(RelationRows, MaxRows))
    \* a file that ends without a newline ends with a row that is not blank
    /\ p_nl \in BOOLEAN
    /\ (p_rows = <<>> \/ p_rows[Len(p_rows)] = BlankRow) => p_nl
    /\ p_in = Content(p_rows, p_nl)
    /\ p_lines = (IF p_kind = "abstracts" THEN file_contents(p_in) ELSE FileLines(p_in))
    /\ p_conv = <<>>
    /\ R = 1
    /\ p_pc = "loop"

\* line 71: one abstract of the comprehension
AbstractIter ==
    /\ p_pc = "loop" /\ p_kind = "abstracts" /\ p_lines # <<>>
    /\ p_conv' = AbstractStep(p_conv, Head(p_lines))
    /\ p_lines' = Tail(p_lines)
    /\ UNCHANGED <<p_kind, p_rows, p_nl, p_in, R, p_pc>>
    /\ UNCHANGED mvars

\* line 71: the comprehension is done, the dict is returned
AbstractReturn ==
    /\ p_pc = "loop" /\ p_kind = "abstracts" /\ p_lines = <<>>
    /\ p_pc' = "returned"
    /\ UNCHANGED <<p_kind, p_rows, p_nl, p_in, p_lines, p_conv, R>>
    /\ UNCHANGED mvars

\* lines 88-95: one line of the entity file
EntityIter ==
    /\ p_pc = "loop" /\ p_kind = "entities" /\ p_lines # <<>>
    /\ ~EntRaises(Head(p_lines))
    /\ p_conv' = EntStep(p_conv, Head(p_lines))
    /\ p_lines' = Tail(p_lines)
    /\ UNCHANGED <<p_kind, p_rows, p_nl, p_in, R, p_pc>>
    /\ UNCHANGED mvars

\* line 90: ValueError, the converter returns nothing
EntityRaise ==
    /\ p_pc = "loop" /\ p_kind = "entities" /\ p_lines # <<>>
    /\ EntRaises(Head(p_lines))
    /\ p_pc' = "raised"
    /\ p_conv' = <<>>
    /\ UNCHANGED <<p_kind, p_rows, p_nl, p_in, p_lines, R>>
    /\ UNCHANGED mvars

\* lines 98-100
EntityReturn ==
    /\ p_pc = "loop" /\ p_kind = "entities" /\ p_lines = <<>>
    /\ p_conv' = JoinValues(p_conv)
    /\ p_pc' = "returned"
    /\ UNCHANGED <<p_kind, p_rows, p_nl, p_in, p_lines, R>>
    /\ UNCHANGED mvars

\* lines 118-128: one line of the relation file
RelationIter ==
    /\ p_pc = "loop" /\ p_kind = "relations" /\ p_lines # <<>>
    /\ ~RelRaises(Head(p_lines))
    /\ LET n == RelStep([dict |-> p_conv, R |-> R], Head(p_lines))
       IN  p_conv' = n.dict /\ R' = n.R
    /\ p_lines' = Tail(p_lines)
    /\ UNCHANGED <<p_kind, p_rows, p_nl, p_in, p_pc>>
    /\ UNCHANGED mvars

\* line 120: ValueError
RelationRaise ==
    /\ p_pc = "loop" /\ p_kind = "relations" /\ p_lines # <<>>
    /\ RelRaises(Head(p_lines))
    /\ p_pc' = "raised"
    /\ p_conv' = <<>>
    /\ UNCHANGED <<p_kind, p_rows, p_nl, p_in, p_lines, R>>
    /\ UNCHANGED mvars

\* lines 131-133
RelationReturn ==
    /\ p_pc = "loop" /\ p_kind = "relations" /\ p_lines = <<>>
    /\ p_conv' = JoinValues(p_conv)
    /\ p_pc' = "returned"
    /\ UNCHANGED <<p_kind, p_rows, p_nl, p_in, p_lines, R>>
    /\ UNCHANGED mvars

NextConverter ==
    \/ AbstractIter \/ AbstractReturn
    \/ EntityIter \/ EntityRaise \/ EntityReturn
    \/ RelationIter \/ RelationRaise \/ RelationReturn

----------------------------------------------------------------------------
(* The input directory of a run of main. *)

\* what re.search finds in a file's name: any of the three patterns
EntFile(name, rows) == [name |-> name, has |-> {"entities"}, content |-> Content(rows, TRUE)]
RelFile(name, rows) == [name |-> name, has |-> {"gold_standard"}, content |-> Content(rows, TRUE)]
AbsFile(name, rows) == [name |-> name, has |-> {"abstracts"}, content |-> Content(rows, TRUE)]

E1a == << <<"1">>, <<"T", "1">>, <<"C">>, <<"0">>, <<"1">>, <<"a">> >>
E1b == << <<"1">>, <<"T", "2">>, <<"G">>, <<"2">>, <<"3">>, <<"b">> >>
E2a == << <<"2">>, <<"T", "1">>, <<"G">>, <<"4">>, <<"5">>, <<"b">> >>
R1a == << <<"1">>, <<"C", "3">>, <<"A", "1">>, <<"B", "2">> >>
R2a == << <<"2">>, <<"C", "4">>, <<"A", "3">>, <<"B", "4">> >>
R3a == << <<"3">>, <<"C", "9">>, <<"A", "5">>, <<"B", "6">> >>
A1  == << <<"1">>, <<"T">>, <<"B">> >>
A2  == << <<"2">>, <<"U">>, <<"C">> >>

InputFiles ==
    { AbsFile("abstracts", <<A1, A2>>),
      AbsFile("abstracts_1", <<A1>>),
      EntFile("entities", <<E1a, E1b, E2a>>),
      EntFile("entities_1", <<E1a, E1b>>),
      EntFile("entities_empty", <<>>),
      EntFile("entities_bad", <<E1a, BlankRow, E1b>>),
      RelFile("gold_standard", <<R1a, R3a>>),
      RelFile("gold_standard_12", <<R1a, R2a, R1a>>),
      RelFile("gold_standard_empty", <<>>),
      RelFile("gold_standard_bad", <<R1a, <<R1a[1], R1a[2]>> >>),
      [name |-> "relations", has |-> {}, content |-> Content(<<R1a>>, TRUE)],
      [name |-> "entities_abstracts", has |-> {"abstracts", "entities"},
       content |-> Content(<<A2>>, TRUE)] }

\* lines 33, 40, 45: the first pattern found in the name decides
Classify(f) ==
    IF "abstracts" \in f.has THEN "abstracts"
    ELSE IF "entities" \in f.has THEN "entities"
    ELSE IF "gold_standard" \in f.has THEN "gold_standard"
    ELSE "none"

----------------------------------------------------------------------------
(* main *)

Unbound == [bound |-> FALSE, dict |-> <<>>]
Bound(d) == [bound |-> TRUE, dict |-> d]

Ext(e) == IF e = "txt" THEN <<"t", "x", "t">> ELSE <<"a", "n", "n">>

\* line 140: f'{pmid}.{ext}' under the output directory
FileName(pmid, e) == pmid \o <<".">> \o Ext(e)

MainIdle ==
    /\ pc = "idle" /\ outdir = "absent" /\ indir = {} /\ todo = {}
    /\ converted_abstracts = Unbound /\ converted_entities = Unbound
    /\ converted_relations = Unbound
    /\ merge_todo = <<>> /\ wq = <<>> /\ wext = "txt" /\ wret = "glob"
    /\ disk = <<>> /\ err = "none"

InitMain ==
    /\ pc = "make_dir"
    /\ outdir \in {"absent", "dir", "file", "blocked"}
    /\ indir \in {d \in SUBSET InputFiles : Cardinality(d) <= MaxFiles}
    /\ todo = indir
    /\ converted_abstracts = Unbound
    /\ converted_entities = Unbound
    /\ converted_relations = Unbound
    /\ merge_todo = <<>> /\ wq = <<>> /\ wext = "txt" /\ wret = "glob"
    /\ disk = <<>> /\ err = "none"

Raise(e) == pc' = "exit" /\ err' = e

\* lines 147-154: what os.makedirs finds decides
\*   absent:  the directory is created
\*   dir:     FileExistsError (EEXIST), swallowed
\*   file:    FileExistsError (EEXIST) as well, swallowed
\*   blocked: another OSError (EACCES, ENOTDIR of a parent), raised again
MakeDirRaises(o) == o = "blocked"
MakeDirResult(o) == IF o = "absent" THEN "dir" ELSE o

\* line 27
make_dir ==
    /\ pc = "make_dir"
    /\ IF MakeDirRaises(outdir)
       THEN Raise("PermissionError") /\ UNCHANGED outdir
       ELSE pc' = "glob" /\ outdir' = MakeDirResult(outdir) /\ UNCHANGED err
    /\ UNCHANGED <<indir, todo, converted_abstracts, converted_entities,
                   converted_relations, merge_todo, wq, wext, wret, disk>>
    /\ UNCHANGED pvars

\* lines 33-37: glob yields an abstracts file; it is converted, then written
GlobAbstracts ==
    /\ pc = "glob"
    /\ \E f \in todo :
         /\ Classify(f) = "abstracts"
         /\ todo' = todo \ {f}
         /\ converted_abstracts' = Bound(convert_abstracts_to_standoff(f.content))
         /\ wq' = converted_abstracts'.dict /\ wext' = "txt" /\ wret' = "glob"
         /\ pc' = "write"
    /\ UNCHANGED <<outdir, indir, converted_entities, converted_relations,
                   merge_todo, disk, err>>
    /\ UNCHANGED pvars

\* lines 40-42
GlobEntities ==
    /\ pc = "glob"
    /\ \E f \in todo :
         /\ Classify(f) = "entities"
         /\ todo' = todo \ {f}
         /\ LET r == convert_entities_to_standoff(f.content)
            IN  IF r.raised
                THEN Raise("ValueError") /\ UNCHANGED converted_entities
                ELSE converted_entities' = Bound(r.dict) /\ UNCHANGED <<pc, err>>
    /\ UNCHANGED <<outdir, indir, converted_abstracts, converted_relations,
                   merge_todo, wq, wext, wret, disk>>
    /\ UNCHANGED pvars

\* lines 45-47
GlobRelations ==
    /\ pc = "glob"
    /\ \E f \in todo :
         /\ Classify(f) = "gold_standard"
         /\ todo' = todo \ {f}
         /\ LET r == convert_relations_to_standoff(f.content)
            IN  IF r.raised
                THEN Raise("ValueError") /\ UNCHANGED converted_relations
                ELSE converted_relations' = Bound(r.dict) /\ UNCHANGED <<pc, err>>
    /\ UNCHANGED <<outdir, indir, converted_abstracts, converted_entities,
                   merge_todo, wq, wext, wret, disk>>
    /\ UNCHANGED pvars

\* lines 29-47: a file whose name holds none of the patterns is passed over
GlobOther ==
    /\ pc = "glob"
    /\ \E f \in todo :
         /\ Classify(f) = "none"
         /\ todo' = todo \ {f}
    /\ UNCHANGED <<pc, outdir, indir, converted_abstracts, converted_entities,
                   converted_relations, merge_todo, wq, wext, wret, disk, err>>
    /\ UNCHANGED pvars

\* the keys of a dict, in its order
KeyList(d) == [i \in 1..Len(d) |-> d[i][1]]

\* line 50: the loop starts; converted_entities is read
MergeStart ==
    /\ pc = "glob" /\ todo = {}
    /\ IF ~converted_entities.bound
       THEN Raise("NameError") /\ UNCHANGED merge_todo
       ELSE /\ pc' = "merge"
            /\ merge_todo' = KeyList(converted_entities.dict)
            /\ UNCHANGED err
    /\ UNCHANGED <<outdir, indir, todo, converted_abstracts, converted_entities,
                   converted_relations, wq, wext, wret, disk>>
    /\ UNCHANGED pvars

\* Merged with the two blocks in each other's place
MergedReversed(e, r) == r \o <<NL>> \o e

\* line 52: f'{converted_entities[pmid]}\n{converted_relations[pmid]}'
Merged(e, r) == e \o <<NL>> \o r

\* lines 51-52: one pmid of the loop; converted_relations is read
MergeIter ==
    /\ pc = "merge" /\ merge_todo # <<>>
    /\ LET pmid == Head(merge_todo)
       IN  IF ~converted_relations.bound
           THEN Raise("NameError") /\ UNCHANGED <<merge_todo, converted_entities>>
           ELSE /\ merge_todo' = Tail(merge_todo)
                /\ converted_entities' =
                     IF DictHas(converted_relations.dict, pmid)
                     THEN Bound(DictSet(converted_entities.dict, pmid,
                                        Merged(DictGet(converted_entities.dict, pmid),
                                               DictGet(converted_relations.dict, pmid))))
                     ELSE converted_entities
                /\ UNCHANGED <<pc, err>>
    /\ UNCHANGED <<outdir, indir, todo, converted_abstracts, converted_relations,
                   wq, wext, wret, disk>>
    /\ UNCHANGED pvars

\* the dict write_to_disk is handed at line 54
AnnDict == converted_entities.dict

\* MergeEnd with the call of write_to_disk inside the loop of line 50
MergeEndEarly ==
    /\ pc = "merge"
    /\ wq' = AnnDict /\ wext' = "ann" /\ wret' = "done"
    /\ pc' = "write"
    /\ UNCHANGED <<outdir, indir, todo, converted_abstracts, converted_entities,
                   converted_relations, merge_todo, disk, err>>
    /\ UNCHANGED pvars

\* line 54: the loop is over, write_to_disk is called
MergeEnd ==
    /\ pc = "merge" /\ merge_todo = <<>>
    /\ wq' = AnnDict /\ wext' = "ann" /\ wret' = "done"
    /\ pc' = "write"
    /\ UNCHANGED <<outdir, indir, todo, converted_abstracts, converted_entities,
                   converted_relations, merge_todo, disk, err>>
    /\ UNCHANGED pvars

\* lines 139-143: one item; open() raises unless the output path is a directory
WriteItem ==
    /\ pc = "write" /\ wq # <<>>
    /\ IF outdir = "dir"
       THEN /\ disk' = DictSet(disk, FileName(Head(wq)[1], wext), Head(wq)[2])
            /\ wq' = Tail(wq)
            /\ UNCHANGED <<pc, err>>
       ELSE Raise("NotADirectoryError") /\ UNCHANGED <<disk, wq>>
    /\ UNCHANGED <<outdir, indir, todo, converted_abstracts, converted_entities,
                   converted_relations, merge_todo, wext, wret>>
    /\ UNCHANGED pvars

\* line 139: no item is left, write_to_disk returns
WriteReturn ==
    /\ pc = "write" /\ wq = <<>>
    /\ pc' = wret
    /\ UNCHANGED <<outdir, indir, todo, converted_abstracts, converted_entities,
                   converted_relations, merge_todo, wq, wext, wret, disk, err>>
    /\ UNCHANGED pvars

NextMain ==
    \/ make_dir
    \/ GlobAbstracts \/ GlobEntities \/ GlobRelations \/ GlobOther
    \/ MergeStart \/ MergeIter \/ MergeEnd
    \/ WriteItem \/ WriteReturn

----------------------------------------------------------------------------
(* The specifications: a run of main, and a call of one converter. *)

Init == InitMain /\ ConverterIdle
Next == NextMain
Spec == Init /\ [][Next]_vars

InitParse == InitConverter /\ MainIdle
NextParse == NextConverter
SpecParse == InitParse /\ [][NextParse]_vars

----------------------------------------------------------------------------
(* What the properties are stated with: the rows of the input, read field  *)
(* by field, without the converters' own string operations.                *)

Whitespace == {SP, TAB, NL}

\* s has a character that is not whitespace
HasInk(s) == \E i \in 1..Len(s) : s[i] \notin Whitespace

\* s without its leading, or trailing, whitespace (s has ink)
TrimLeft(s) ==
    LET i == CHOOSE k \in 1..Len(s) :
                 s[k] \notin Whitespace /\ \A j \in 1..(k - 1) : s[j] \in Whitespace
    IN  SubSeq(s, i, Len(s))
TrimRight(s) ==
    LET i == CHOOSE k \in 1..Len(s) :
                 s[k] \notin Whitespace /\ \A j \in (k + 1)..Len(s) : s[j] \in Whitespace
    IN  SubSeq(s, 1, i)

\* the lines of a block, a newline between each two
RECURSIVE Cat(_)
Cat(lines) ==
    IF lines = <<>> THEN <<>>
    ELSE IF Len(lines) = 1 THEN lines[1]
    ELSE Cat(SubSeq(lines, 1, Len(lines) - 1)) \o <<NL>> \o lines[Len(lines)]

Numeral(i) == <<"1", "2", "3", "4", "5", "6", "7", "8", "9">>[i]

\* a field with no whitespace in it, and not empty
Clean(s) == s # <<>> /\ \A i \in 1..Len(s) : s[i] \notin Whitespace

Finished == p_pc \in {"returned", "raised"}

\* the fields a line keeps once the whitespace at its two ends is gone
StrippedCount(row) ==
    LET I == {i \in 1..Len(row) : HasInk(row[i])}
    IN  IF I = {} THEN 1
        ELSE (CHOOSE b \in I : \A a \in I : a <= b)
             - (CHOOSE a \in I : \A b \in I : a <= b) + 1

ExpectedCount == IF p_kind = "entities" THEN 6 ELSE 4

----------------------------------------------------------------------------
(* C1: relation identifiers per document *)

RelationLine(i, r) ==
    <<"R">> \o Numeral(i) \o <<TAB>> \o r[2] \o <<SP>> \o r[3] \o <<SP>> \o r[4]

RowsOf(rows, pmid) == SelectSeq(rows, LAMBDA r : r[1] = pmid)

WellFormedRelations ==
    \A i \in 1..Len(p_rows) :
        Len(p_rows[i]) = 4 /\ \A k \in 1..4 : Clean(p_rows[i][k])

\* C1: for well-formed relation rows, interleaved or not, the block of every
\* document_id is its rows in input order numbered R1, R2, ..., Rn.
RelationIdsContiguous ==
    (p_kind = "relations" /\ p_pc = "returned" /\ WellFormedRelations) =>
        \A i \in 1..Len(p_rows) :
            LET pmid == p_rows[i][1]
                mine == RowsOf(p_rows, pmid)
            IN  /\ DictHas(p_conv, pmid)
                /\ DictGet(p_conv, pmid)
                     = Cat([n \in 1..Len(mine) |-> RelationLine(n, mine[n])])

----------------------------------------------------------------------------
(* C4: the entity block of a document *)

SixFieldRows == \A i \in 1..Len(p_rows) : Len(p_rows[i]) = 6

\* six fields, none of them empty
WellFormedEntities ==
    \A i \in 1..Len(p_rows) :
        Len(p_rows[i]) = 6 /\ \A k \in 1..6 : p_rows[i][k] # <<>>

EntityLine(r, text) ==
    r[2] \o <<TAB>> \o r[3] \o <<SP>> \o r[4] \o <<SP>> \o r[5] \o <<TAB>> \o text

\* C4 as stated: for well-formed 6-field entity rows the converter returns, and
\* the block of every document_id is its rows in input order, every field as in
\* the input.
EntityFieldsExact ==
    (p_kind = "entities" /\ Finished /\ WellFormedEntities) =>
        /\ p_pc = "returned"
        /\ \A i \in 1..Len(p_rows) :
              LET pmid == p_rows[i][1]
                  mine == RowsOf(p_rows, pmid)
              IN  /\ DictHas(p_conv, pmid)
                  /\ DictGet(p_conv, pmid)
                       = Cat([n \in 1..Len(mine) |-> EntityLine(mine[n], mine[n][6])])

InkAtBothEnds == \A i \in 1..Len(p_rows) : HasInk(p_rows[i][1]) /\ HasInk(p_rows[i][6])

\* C4 as amended: for 6-field entity rows whose document_id and surface_text
\* each hold a character that is not whitespace, the block of every
\* document_id is its rows in input order, every field as in the input except
\* that the whitespace before the document_id and after the surface_text is
\* gone; the document_ids are the keys; and when some row's document_id or
\* surface_text is empty or all whitespace the converter raises.
EntityFieldsStripped ==
    (p_kind = "entities" /\ Finished /\ SixFieldRows) =>
        IF InkAtBothEnds
        THEN /\ p_pc = "returned"
             /\ DictKeys(p_conv) = {TrimLeft(p_rows[i][1]) : i \in 1..Len(p_rows)}
             /\ \A i \in 1..Len(p_rows) :
                   LET pmid == TrimLeft(p_rows[i][1])
                       mine == SelectSeq(p_rows, LAMBDA r : TrimLeft(r[1]) = pmid)
                   IN  DictGet(p_conv, pmid)
                         = Cat([n \in 1..Len(mine) |->
                                   EntityLine(mine[n], TrimRight(mine[n][6]))])
        ELSE p_pc = "raised"

\* two rows of one document, one of them with whitespace to strip, returned
EntityFieldsStrippedWitness ==
    /\ p_kind = "entities" /\ p_pc = "returned" /\ SixFieldRows /\ InkAtBothEnds
    /\ \E i, j \in 1..Len(p_rows) :
          /\ i < j
          /\ TrimLeft(p_rows[i][1]) = TrimLeft(p_rows[j][1])
          /\ p_rows[i][6] # p_rows[j][6]
          /\ TrimRight(p_rows[j][6]) # p_rows[j][6]

----------------------------------------------------------------------------
(* C5: the abstracts mapping *)

\* C5 as stated: every row's document_id is mapped to the rest of that row's
\* fields with newlines between them, to the empty string when there is none.
AbstractsEveryRowMapped ==
    (p_kind = "abstracts" /\ p_pc = "returned") =>
        \A i \in 1..Len(p_rows) :
            /\ DictHas(p_conv, p_rows[i][1])
            /\ DictGet(p_conv, p_rows[i][1]) = Cat(Tail(p_rows[i]))

\* the content neither starts nor ends with whitespace, its last newline aside
CleanEdges ==
    /\ p_rows # <<>>
    /\ RowText(p_rows[1]) # <<>>
    /\ Head(RowText(p_rows[1])) \notin Whitespace
    /\ LET t == RowText(p_rows[Len(p_rows)])
       IN  t # <<>> /\ t[Len(t)] \notin Whitespace

\* the last row that carries the document_id of row i
LastOf(i) ==
    CHOOSE j \in 1..Len(p_rows) :
        /\ p_rows[j][1] = p_rows[i][1]
        /\ \A k \in (j + 1)..Len(p_rows) : p_rows[k][1] # p_rows[i][1]

\* C5 as amended: for an input that neither starts nor ends with whitespace
\* (one final newline aside), the keys are the rows' document_ids, and each is
\* mapped to the rest of the fields, newlines between them, of the last row
\* that carries it; to the empty string when that row has one field.
AbstractsLastRowWins ==
    (p_kind = "abstracts" /\ p_pc = "returned" /\ CleanEdges) =>
        /\ DictKeys(p_conv) = {p_rows[i][1] : i \in 1..Len(p_rows)}
        /\ \A i \in 1..Len(p_rows) :
              DictGet(p_conv, p_rows[i][1]) = Cat(Tail(p_rows[LastOf(i)]))

\* a document_id carried by two rows that differ, and a row of one field
AbstractsLastRowWinsWitness ==
    /\ p_kind = "abstracts" /\ p_pc = "returned" /\ CleanEdges
    /\ \E i, j \in 1..Len(p_rows) :
          i < j /\ p_rows[i][1] = p_rows[j][1] /\ p_rows[i] # p_rows[j]
    /\ \E i \in 1..Len(p_rows) : Len(p_rows[i]) = 1

----------------------------------------------------------------------------
(* C6: blank lines *)

NotBlank(r) == r # BlankRow

\* the input without its blank lines
WithoutBlankLines == Content(SelectSeq(p_rows, NotBlank), p_nl)

\* C6: a blank line is skipped: the entity and the relation converter end as
\* they do on the same input without its blank lines, with the same mapping.
BlankLinesSkipped ==
    (p_kind \in {"entities", "relations"} /\ Finished) =>
        LET want == IF p_kind = "entities"
                    THEN convert_entities_to_standoff(WithoutBlankLines)
                    ELSE convert_relations_to_standoff(WithoutBlankLines)
        IN  /\ (p_pc = "raised") = want.raised
            /\ p_pc = "returned" => p_conv = want.dict

----------------------------------------------------------------------------
(* C8: rows with a wrong number of fields *)

\* C8 as stated: a row that is not blank and has not the expected number of
\* fields makes the entity and the relation converter raise.
WrongFieldCountFails ==
    (/\ p_kind \in {"entities", "relations"}
     /\ \E i \in 1..Len(p_rows) :
           NotBlank(p_rows[i]) /\ Len(p_rows[i]) # ExpectedCount)
        => p_pc # "returned"

\* C8 as amended: a row that is not blank and, once the whitespace at the two
\* ends of its line is stripped, has not the expected number of fields makes
\* the entity and the relation converter raise.
WrongStrippedFieldCountFails ==
    (/\ p_kind \in {"entities", "relations"}
     /\ \E i \in 1..Len(p_rows) :
           NotBlank(p_rows[i]) /\ StrippedCount(p_rows[i]) # ExpectedCount)
        => p_pc # "returned"

\* the entity converter raised on a row with one field too many
WrongStrippedFieldCountFailsWitness ==
    /\ p_kind = "entities" /\ p_pc = "raised" /\ p_rows # <<>>
    /\ \A i \in 1..(Len(p_rows) - 1) : StrippedCount(p_rows[i]) = 6
    /\ StrippedCount(p_rows[Len(p_rows)]) = 7

----------------------------------------------------------------------------
(* The run of main. *)

AnnName(pmid) == pmid \o <<".", "a", "n", "n">>
IsAnn(name) == Len(name) >= 4 /\ SubSeq(name, Len(name) - 3, Len(name)) = <<".", "a", "n", "n">>
IsTxt(name) == Len(name) >= 4 /\ SubSeq(name, Len(name) - 3, Len(name)) = <<".", "t", "x", "t">>

\* the mappings the converters return for the files of the input directory
EntityMappings ==
    {convert_entities_to_standoff(f.content).dict :
        f \in {g \in indir : Classify(g) = "entities"}}
RelationMappings ==
    {convert_relations_to_standoff(f.content).dict :
        f \in {g \in indir : Classify(g) = "gold_standard"}}

\* C2: when main ends, every document_id of the entity mapping or of the
\* relation mapping has its .ann file; a document with relations only holds
\* its relation block, a document with entities only its entity block.
EveryAnnotatedDocumentWritten ==
    pc = "done" =>
        \E E \in EntityMappings : \E Rl \in RelationMappings \cup {<<>>} :
            \A pmid \in DictKeys(E) \cup DictKeys(Rl) :
                /\ DictHas(disk, AnnName(pmid))
                /\ ~DictHas(Rl, pmid) => DictGet(disk, AnnName(pmid)) = DictGet(E, pmid)
                /\ ~DictHas(E, pmid) => DictGet(disk, AnnName(pmid)) = DictGet(Rl, pmid)

\* C3: when main ends, the .ann file of every document_id of both mappings
\* holds the entity block, a newline, the relation block, and so does the
\* document's entry of converted_entities.
MergedBodyEntityThenRelation ==
    (pc = "done" /\ converted_relations.bound) =>
        \E E \in EntityMappings : \E Rl \in RelationMappings :
            \A pmid \in DictKeys(E) \cap DictKeys(Rl) :
                LET body == DictGet(E, pmid) \o <<NL>> \o DictGet(Rl, pmid)
                IN  /\ DictHas(disk, AnnName(pmid))
                    /\ DictGet(disk, AnnName(pmid)) = body
                    /\ DictGet(converted_entities.dict, pmid) = body

\* main ended, and a document of both mappings was written
MergedBodyWitness ==
    /\ pc = "done" /\ converted_relations.bound
    /\ \E pmid \in DictKeys(converted_relations.dict) : DictHas(disk, AnnName(pmid))

\* C7: main ends well only if the input directory holds a file of each of
\* the three kinds.
MissingKindIsFatal ==
    pc = "done" =>
        \A k \in {"abstracts", "entities", "gold_standard"} :
            \E f \in indir : Classify(f) = k

\* C9: once make_dir has returned without raising, the output path is a
\* directory.
MakeDirLeavesDirectory ==
    (pc # "make_dir" /\ err # "PermissionError") => outdir = "dir"

\* C10 as stated: a file is written only once the output directory is made
\* and every input file is parsed, an .ann file only once the entity and the
\* relation file are parsed and merged.
PipelineOrder ==
    /\ disk # <<>> => (pc # "make_dir" /\ outdir = "dir")
    /\ disk # <<>> => todo = {}
    /\ \A name \in DictKeys(disk) :
          IsAnn(name) =>
              /\ converted_entities.bound /\ converted_relations.bound
              /\ merge_todo = <<>> /\ pc \in {"write", "done", "exit"}

\* C10 as amended: a file is written only once the output directory is made;
\* an .ann file only once every input file is parsed and the entity and the
\* relation mapping are merged; a .txt file once the abstracts file is
\* parsed, whether or not the other input files are.
PipelineOrderOfAnn ==
    /\ disk # <<>> => (pc # "make_dir" /\ outdir = "dir")
    /\ \A name \in DictKeys(disk) :
          /\ IsAnn(name) =>
                /\ todo = {}
                /\ converted_entities.bound /\ converted_relations.bound
                /\ merge_todo = <<>> /\ pc \in {"write", "done", "exit"}
          /\ IsTxt(name) => converted_abstracts.bound

\* main ended with a .txt and an .ann file written
PipelineOrderWitness ==
    /\ pc = "done"
    /\ \E name \in DictKeys(disk) : IsAnn(name)
    /\ \E name \in DictKeys(disk) : IsTxt(name)

====
